---------------------------- MODULE Spec2Model ----------------------------
(***************************************************************************)
(* A model of nanolocal's coordination substrate:                          *)
(*   - FileLock / file_lock   (src/nanobot/utils/file_lock.py)             *)
(*   - the Locked*Tool wrappers (src/nanobot/agent/tools/selfagent_tools.py)*)
(*   - SelfAgent's start/stop and reflection task, its observation        *)
(*     buffers, _perform_reflection and _run_agent_loop                    *)
(*                            (src/nanobot/agent/selfagent.py)             *)
(*                                                                         *)
(* Granularity.  Every coroutine runs without interruption between two     *)
(* awaits.  FileLock.acquire has exactly one await, the asyncio.sleep(0.1) *)
(* at the bottom of the poll loop, and FileLock.release has none, so one   *)
(* poll attempt (time check, exists(), write_text / read_text) is one      *)
(* step and release is one step.                                           *)
(*                                                                         *)
(* One protected resource is modelled: the marker path is derived from the *)
(* resource path alone, so locks on different resources share no state.    *)
(*                                                                         *)
(* Time is counted in poll ticks of 0.1 s.  The loop condition             *)
(* time.time() - start_time < timeout compares two values that only        *)
(* matter through their difference, kept as left[a].                       *)
(*                                                                         *)
(* The specifications: SpecLock, SpecPriv and SpecTool use the lock on a   *)
(* file system that works, SpecFault on one whose reads, writes and        *)
(* unlinks may fail; SpecSched runs start(), stop() and the reflection     *)
(* tasks with the lock; SpecAgent runs the cycles of one reflection task   *)
(* with the buffers and the agent loop, SpecBuf does so from buffers       *)
(* filled up to the size limit, SpecScenario only publishes messages;      *)
(* SpecLife runs start() and stop() of an enabled or disabled scheduler    *)
(* with the publishers and the buffers.                                    *)
(***************************************************************************)
EXTENDS Integers, Sequences, FiniteSets

VARIABLES
    lockfile,   \* content of <resource>.nanobot_lock, or NoFile when absent
    acquired,   \* acquired[a] : FileLock._acquired of a's lock object
    pc,         \* pc[a]       : where a's coroutine is suspended
    caller,     \* caller[a]   : who called the acquire in progress
    left,       \* left[a]     : ticks left of the acquire in progress,
                \*               timeout - (time.time() - start_time)
    holding,    \* holding[a]  : a's last acquire succeeded and a has not called
                \*               release since (history variable)
    last,       \* the call that completed most recently (history variable)
    running,    \* SelfAgent._running
    reflTask,   \* SelfAgent._reflection_task: the task start() created last
    tpc,        \* tpc[t]      : where reflection task t is
    cancelReq,  \* cancelReq[t]: Task.cancel() was called on t and the
                \*               CancelledError is not yet delivered
    stopPc,     \* where the stop() call in progress is suspended
    stopWait,   \* the task that stop() call awaits
    stopped,    \* stop() has returned and start() was not called since
                \*               (history variable)
    enabled,    \* config.enabled
    observers,  \* observers[s]: how often the callback of stream s is
                \*               registered with its publisher
    startSkipped,   \* the latest start() returned at once, the scheduler
                \*               being disabled (history variable)
    inspected,  \* the latest poll attempt made on a failing file system:
                \*               who made it, the marker it found and the
                \*               outcomes of its I/O (history variable)
    message_buffer, \* SelfAgent._message_buffer: the events, oldest first
    state_buffer,   \* SelfAgent._state_buffer
    messages,   \* the snapshot `messages` of the latest _perform_reflection
    states,     \* the snapshot `states` of the latest _perform_reflection
    published,  \* published[s] : how many events stream s has published;
                \*               the n-th event of a stream is the number n
    drained,    \* drained[s]   : the snapshots of stream s that the drains
                \*               returned, one after the other (history)
    lost,       \* lost[s]      : the events of s the size limit discarded
                \*               (history variable)
    pubLeft,    \* how many events the main process still publishes
    max_iterations, \* config.max_iterations
    iteration,  \* the loop variable `iteration` of _run_agent_loop
    loop_messages,  \* the list `messages` of _run_agent_loop: the context
    tool_calls, \* response.tool_calls of the response being worked off
    call,       \* the position of `for tool_call in response.tool_calls`
    inflight,   \* the tool calls whose tools.execute has not returned
    result,     \* what the latest _run_agent_loop returned or raised
    chats,      \* provider.chat calls of the latest run (history variable)
    invoked     \* the latest _perform_reflection called _run_agent_loop
                \*               (history variable)

lockVars == <<lockfile, acquired, pc, caller, left, holding, last>>

\* the configuration switch and the registrations of the two callbacks
lifeVars == <<enabled, observers, startSkipped>>

schedVars == <<running, reflTask, tpc, cancelReq, stopPc, stopWait, stopped,
               lifeVars>>

\* the observation buffers and their drains
bufVars == <<message_buffer, state_buffer, messages, states, published,
             drained, lost, pubLeft>>

\* one run of the agent loop
loopVars == <<max_iterations, iteration, loop_messages, tool_calls, call,
              inflight, result, chats, invoked>>

\* what lies outside the lock and the scheduler
envVars == <<inspected, bufVars, loopVars>>

vars == <<lockVars, schedVars, envVars>>

(***************************************************************************)
(* Bounds                                                                  *)
(***************************************************************************)
\* longest timeout a caller passes, in poll ticks
MaxTimeout == 2
\* longest time one asyncio.sleep(0.1) takes, in poll ticks
MaxSleep == 2
\* most registrations of one callback that start() adds up
MaxObservers == 2

(***************************************************************************)
(* Actors: lock objects and the coroutines using them                      *)
(***************************************************************************)
Sub == {"s1", "s2"}
Main == {"m1", "m2"}
Actors == Sub \cup Main

\* FileLock.is_main_agent
is_main_agent(a) == a \in Main

\* the role tag written into the marker: 'main' or 'selfagent'
RoleTagAlwaysSelfagent(a) == "selfagent"
RoleTag(a) == IF is_main_agent(a) THEN "main" ELSE "selfagent"

\* the marker file is absent
NoFile == [by |-> "-", tag |-> "-"]

\* f"{os.getpid()}|{time.time()}|{role}": the holder id and timestamp are
\* kept as the writer's identity (never parsed by the code), the role tag
\* as the third field
Content(a) == [by |-> a, tag |-> RoleTag(a)]

\* Path.exists()
exists(f) == f # NoFile

\* "selfagent" in content: the first two fields are numbers, so the
\* substring can only occur in the role tag
HasSelfagent(f) == f.tag = "selfagent"

\* main-agent priority branch of acquire: may the caller overwrite marker f
CanOverrideNever(a, f) == FALSE
CanOverrideMainTag(a, f) == is_main_agent(a) /\ exists(f) /\ f.tag = "main"
CanOverrideAnyRole(a, f) == exists(f) /\ HasSelfagent(f)
CanOverride(a, f) == is_main_agent(a) /\ exists(f) /\ HasSelfagent(f)

\* one poll attempt of acquire on marker f: does it succeed, and the marker
\* it leaves
AcquireAttempt(a, f) ==
    IF ~exists(f)
        THEN [ok |-> TRUE, file |-> Content(a)]
    ELSE IF CanOverride(a, f)
        THEN [ok |-> TRUE, file |-> [by |-> a, tag |-> "main"]]
    ELSE [ok |-> FALSE, file |-> f]

\* the while condition of the poll loop, time.time() - start_time < timeout,
\* on the ticks l that are left of the timeout
InTimeInclusive(l) == l >= 0
InTimeFromZero(l) == l + 1 > 0
InTime(l) == l > 0

\* l - d, not below 0
Minus(l, d) == IF l > d THEN l - d ELSE 0

\* the record of a completed call: who called what, what it returned or
\* raised, and the marker tag a successful acquire found
Done(a, op, res, tag) == [who |-> a, op |-> op, res |-> res, found |-> tag]

(***************************************************************************)
(* Initial state: no marker, every lock object freshly constructed         *)
(***************************************************************************)
LockInit ==
    /\ lockfile = NoFile
    /\ acquired = [a \in Actors |-> FALSE]
    /\ pc = [a \in Actors |-> "idle"]
    /\ caller = [a \in Actors |-> "none"]
    /\ left = [a \in Actors |-> 0]
    /\ holding = [a \in Actors |-> FALSE]
    /\ last = Done("-", "-", "-", "-")

\* SelfAgent.__init__: not running, no reflection task
\* the streams of observations: messages and state changes
Streams == {"message", "state"}

\* a constructed SelfAgent whose config.enabled is e
SchedInitWith(e) ==
    /\ running = FALSE
    /\ reflTask = "none"
    /\ tpc = [t \in Sub |-> "none"]
    /\ cancelReq = [t \in Sub |-> FALSE]
    /\ stopPc = "idle"
    /\ stopWait = "none"
    /\ stopped = FALSE
    /\ enabled = e
    /\ observers = [s \in Streams |-> 0]
    /\ startSkipped = FALSE

SchedInit == SchedInitWith(TRUE)

\* the events 1..k in the order they were published
FirstEvents(k) == [i \in 1..k |-> i]

\* the buffers after the first km messages and ks state changes were
\* published (no more than the size limit lets through untouched) and no
\* drain was made; n events are still to be published
BufInit(km, ks, n) ==
    /\ message_buffer = FirstEvents(km)
    /\ state_buffer = FirstEvents(ks)
    /\ messages = <<>>
    /\ states = <<>>
    /\ published = [s \in Streams |-> IF s = "message" THEN km ELSE ks]
    /\ drained = [s \in Streams |-> <<>>]
    /\ lost = [s \in Streams |-> {}]
    /\ pubLeft = n

\* no run of the agent loop was made; config.max_iterations is mi
LoopInit(mi) ==
    /\ max_iterations = mi
    /\ iteration = 0
    /\ loop_messages = <<>>
    /\ tool_calls = <<>>
    /\ call = 0
    /\ inflight = {}
    /\ result = "none"
    /\ chats = 0
    /\ invoked = FALSE

\* no poll attempt was made yet
FaultInit ==
    /\ inspected = [who |-> "-", marker |-> NoFile, write |-> "-", read |-> "-"]

\* SelfAgent.__init__: empty buffers; nothing is published
EnvInit == FaultInit /\ BufInit(0, 0, 0) /\ LoopInit(0)

Init == LockInit /\ SchedInit /\ EnvInit

(***************************************************************************)
(* FileLock.acquire: the poll loop from its head, for actor a whose call   *)
(* came from c ("api": a direct call, "file_lock": the context manager),   *)
(* with l ticks left of its timeout, on a lock object whose flag is acq    *)
(* and whose history is h.                                                 *)
(*   - time is up          -> return False; file_lock raises TimeoutError  *)
(*   - the attempt succeeds-> return True;  file_lock yields to the body   *)
(*   - otherwise           -> suspend in asyncio.sleep(0.1)                *)
(* r is the outcome of the poll attempt on the marker, taken only when     *)
(* time is left.                                                           *)
(***************************************************************************)
AcquireLoopWith(a, c, l, acq, h, r) ==
    IF ~InTime(l)
    THEN /\ pc' = [pc EXCEPT ![a] = "idle"]
         /\ caller' = [caller EXCEPT ![a] = "none"]
         /\ left' = [left EXCEPT ![a] = 0]
         /\ acquired' = [acquired EXCEPT ![a] = acq]
         /\ holding' = [holding EXCEPT ![a] = h]
         /\ last' = IF c = "file_lock"
                       THEN Done(a, c, "TimeoutError", "-")
                       ELSE Done(a, "acquire", "False", "-")
         /\ UNCHANGED lockfile
    ELSE IF r.ok
         THEN /\ lockfile' = r.file
              /\ acquired' = [acquired EXCEPT ![a] = TRUE]
              /\ pc' = [pc EXCEPT ![a] =
                    IF c = "file_lock" THEN "body" ELSE "idle"]
              /\ caller' = [caller EXCEPT ![a] =
                    IF c = "file_lock" THEN c ELSE "none"]
              /\ left' = [left EXCEPT ![a] = 0]
              /\ holding' = [holding EXCEPT ![a] = TRUE]
              /\ last' = Done(a, "acquire", "True", lockfile.tag)
         ELSE /\ pc' = [pc EXCEPT ![a] = "sleep"]
              /\ caller' = [caller EXCEPT ![a] = c]
              /\ left' = [left EXCEPT ![a] = l]
              /\ acquired' = [acquired EXCEPT ![a] = acq]
              /\ holding' = [holding EXCEPT ![a] = h]
              /\ lockfile' = r.file
              /\ UNCHANGED last

\* the poll loop when every read and write of the marker goes through
AcquireLoop(a, c, l, acq, h) ==
    AcquireLoopWith(a, c, l, acq, h, AcquireAttempt(a, lockfile))

\* a direct call of FileLock.acquire() with timeout t: start_time is taken
\* and the loop runs up to its first await
AcquireCall(a, t) ==
    /\ pc[a] = "idle"
    /\ AcquireLoop(a, "api", t, acquired[a], holding[a])

\* asyncio.sleep(0.1) returns after d ticks and the loop runs again
AcquireWake(a, d) ==
    /\ pc[a] = "sleep"
    /\ AcquireLoop(a, caller[a], Minus(left[a], d), acquired[a], holding[a])

(***************************************************************************)
(* FileLock.release                                                        *)
(***************************************************************************)
\* the guard of release: only then is the marker unlinked and the flag reset
ReleaseGuard(a, f) == acquired[a] /\ exists(f)

\* the effect of release on the marker and the flag
ReleaseEffect(a) ==
    IF ReleaseGuard(a, lockfile)
    THEN /\ lockfile' = NoFile
         /\ acquired' = [acquired EXCEPT ![a] = FALSE]
    ELSE UNCHANGED <<lockfile, acquired>>

\* a direct call of FileLock.release()
Release(a) ==
    /\ pc[a] = "idle"
    /\ ReleaseEffect(a)
    /\ holding' = [holding EXCEPT ![a] = FALSE]
    /\ last' = Done(a, "release", "None", "-")
    /\ UNCHANGED <<pc, caller, left>>

(***************************************************************************)
(* The direct use of FileLock objects by four callers                      *)
(***************************************************************************)
LockNext ==
    \/ \E a \in Actors, t \in 0..MaxTimeout :
          AcquireCall(a, t) /\ UNCHANGED <<schedVars, envVars>>
    \/ \E a \in Actors, d \in 1..MaxSleep :
          AcquireWake(a, d) /\ UNCHANGED <<schedVars, envVars>>
    \/ \E a \in Actors :
          Release(a) /\ UNCHANGED <<schedVars, envVars>>

SpecLock == Init /\ [][LockNext]_vars


(***************************************************************************)
(* One PRIVILEGED caller among SUBORDINATE callers.  The event loop runs   *)
(* every coroutine that is ready, so the PRIVILEGED caller's sleep returns *)
(* and its poll loop goes on; the caller wants the lock again whenever it  *)
(* is idle.                                                                *)
(***************************************************************************)
PrivActors == Sub \cup {"m1"}

PrivNext ==
    \/ \E a \in PrivActors, t \in 0..MaxTimeout :
          AcquireCall(a, t) /\ UNCHANGED <<schedVars, envVars>>
    \/ \E a \in PrivActors, d \in 1..MaxSleep :
          AcquireWake(a, d) /\ UNCHANGED <<schedVars, envVars>>
    \/ \E a \in PrivActors :
          Release(a) /\ UNCHANGED <<schedVars, envVars>>

SpecPriv ==
    /\ Init
    /\ [][PrivNext]_vars
    /\ WF_vars(\E t \in 1..MaxTimeout :
                  AcquireCall("m1", t) /\ UNCHANGED <<schedVars, envVars>>)
    /\ WF_vars(\E d \in 1..MaxSleep :
                  AcquireWake("m1", d) /\ UNCHANGED <<schedVars, envVars>>)

(***************************************************************************)
(* file_lock, the scoped acquisition used by the Locked*Tool wrappers      *)
(***************************************************************************)
\* the timeouts the tools pass: 5.0 s (read, list) and 10.0 s (write, edit),
\* scaled to the ticks the model counts
ToolTimeouts == 1..MaxTimeout

\* the ways the body of the with-block ends: it returns, or an exception
\* (CancelledError included) leaves it; the finally clause runs on all
Exits == {"return", "raise"}

\* entering `async with file_lock(filepath, timeout=t, is_main_agent=...)`:
\* a fresh FileLock is built and acquire runs up to its first await; when
\* it returns True the body starts, when False TimeoutError is raised
FileLockEnter(a, t) ==
    /\ pc[a] = "idle"
    /\ AcquireLoop(a, "file_lock", t, FALSE, FALSE)

\* the body (super().execute) ends in way how and the finally clause
\* releases the lock
FileLockExit(a, how) ==
    /\ pc[a] = "body"
    /\ ReleaseEffect(a)
    /\ pc' = [pc EXCEPT ![a] = "idle"]
    /\ caller' = [caller EXCEPT ![a] = "none"]
    /\ holding' = [holding EXCEPT ![a] = FALSE]
    /\ last' = Done(a, "file_lock", how, "-")
    /\ UNCHANGED left

(***************************************************************************)
(* Locked tool operations of both roles on the resource                    *)
(***************************************************************************)
ToolNext ==
    \/ \E a \in Actors, t \in ToolTimeouts :
          FileLockEnter(a, t) /\ UNCHANGED <<schedVars, envVars>>
    \/ \E a \in Actors, d \in 1..MaxSleep :
          AcquireWake(a, d) /\ UNCHANGED <<schedVars, envVars>>
    \/ \E a \in Actors, how \in Exits :
          FileLockExit(a, how) /\ UNCHANGED <<schedVars, envVars>>

SpecTool == Init /\ [][ToolNext]_vars

(***************************************************************************)
(* SelfAgent: start(), stop() and the reflection tasks.                    *)
(*                                                                         *)
(* Every reflection task runs the tools built with is_main_agent=False, so *)
(* a task is a SUBORDINATE actor and is named like its lock object.  The   *)
(* host calls start() and stop() one after the other.  A cycle is kept to  *)
(* what bears on the lock: whether the drain found anything, what the      *)
(* reasoning call answers, and the locked tool operation it asks for.      *)
(* The main agent's side runs locked tool operations of its own.           *)
(***************************************************************************)
Tasks == Sub

\* `while self._running` at the head of _reflection_loop: sleep for the
\* interval again, or leave the loop and finish
LoopHead == IF running THEN "interval" ELSE "done"

\* `if not self.config.enabled: return` at the head of start(): does the
\* call go on
StartsAlways == TRUE
Starts == enabled

\* the streams start() registers a callback on: bus.add_monitor for the
\* messages, main_loop.add_observer for the state changes
StartRegistersMessages == {"message"}
StartRegisters == Streams

\* the streams stop() takes its callback off: bus.remove_monitor and
\* main_loop.remove_observer
StopRemoves == Streams

\* add_monitor / add_observer on a publisher that holds the callback n
\* times: the callbacks are kept as a list, one more entry
AddObserver(n) == n + 1

\* remove_monitor / remove_observer: one entry less, nothing when the
\* callback is not registered
RemoveObserver(n) == IF n > 0 THEN n - 1 ELSE 0

\* start() with config.enabled: sets _running, registers the two callbacks
\* and creates a new task, which becomes _reflection_task; an earlier task
\* is neither cancelled nor kept
StartCall(t) ==
    /\ Starts
    /\ stopPc = "idle"
    /\ tpc[t] \in {"none", "done"}
    /\ \A s \in Streams : observers[s] < MaxObservers
    /\ running' = TRUE
    /\ observers' = [s \in Streams |->
            IF s \in StartRegisters THEN AddObserver(observers[s])
                                    ELSE observers[s]]
    /\ reflTask' = t
    /\ tpc' = [tpc EXCEPT ![t] = "created"]
    /\ stopped' = FALSE
    /\ startSkipped' = FALSE
    /\ UNCHANGED <<cancelReq, stopPc, stopWait, enabled, lockVars>>

\* start() without config.enabled: logs and returns
StartDisabled ==
    /\ ~Starts
    /\ stopPc = "idle"
    /\ startSkipped' = TRUE
    /\ UNCHANGED <<running, reflTask, tpc, cancelReq, stopPc, stopWait,
                   stopped, enabled, observers, lockVars>>

\* the first step of a created task: up to the first asyncio.sleep(interval)
TaskBegin(t) ==
    /\ tpc[t] = "created" /\ ~cancelReq[t]
    /\ tpc' = [tpc EXCEPT ![t] = LoopHead]
    /\ UNCHANGED <<running, reflTask, cancelReq, stopPc, stopWait, stopped,
                   lifeVars, lockVars>>

\* the interval is over: _perform_reflection drains the buffers; with both
\* snapshots empty it returns, otherwise it goes on to the reasoning call
TaskTick(t, empty) ==
    /\ tpc[t] = "interval" /\ ~cancelReq[t]
    /\ tpc' = [tpc EXCEPT ![t] = IF empty THEN LoopHead ELSE "chat"]
    /\ UNCHANGED <<running, reflTask, cancelReq, stopPc, stopWait, stopped,
                   lifeVars, lockVars>>

\* provider.chat answers without tool calls ("text") or raises ("error"):
\* the cycle ends and the loop goes back to its head
TaskChatEnds(t, resp) ==
    /\ tpc[t] = "chat" /\ ~cancelReq[t]
    /\ resp \in {"text", "error"}
    /\ tpc' = [tpc EXCEPT ![t] = LoopHead]
    /\ UNCHANGED <<running, reflTask, cancelReq, stopPc, stopWait, stopped,
                   lifeVars, lockVars>>

\* provider.chat answers with a tool call: tools.execute enters file_lock
TaskToolCall(t, to) ==
    /\ tpc[t] = "chat" /\ ~cancelReq[t]
    /\ FileLockEnter(t, to)
    /\ tpc' = [tpc EXCEPT ![t] = "tool"]
    /\ UNCHANGED <<running, reflTask, cancelReq, stopPc, stopWait, stopped,
                   lifeVars>>

\* the tool's acquire polls again; on TimeoutError the cycle is aborted
TaskLockWake(t, d) ==
    /\ tpc[t] = "tool" /\ ~cancelReq[t]
    /\ AcquireWake(t, d)
    /\ tpc' = [tpc EXCEPT ![t] = IF pc'[t] = "idle" THEN LoopHead ELSE "tool"]
    /\ UNCHANGED <<running, reflTask, cancelReq, stopPc, stopWait, stopped,
                   lifeVars>>

\* the tool's body ends and file_lock releases; after a return the agent
\* loop asks the reasoning call again (more) or has used up max_iterations,
\* an exception aborts the cycle
TaskToolExit(t, how, more) ==
    /\ tpc[t] = "tool" /\ ~cancelReq[t]
    /\ FileLockExit(t, how)
    /\ tpc' = [tpc EXCEPT ![t] =
            IF how = "return" /\ more THEN "chat" ELSE LoopHead]
    /\ UNCHANGED <<running, reflTask, cancelReq, stopPc, stopWait, stopped,
                   lifeVars>>

\* the CancelledError of Task.cancel() is raised at the await the task is
\* suspended in: inside a file_lock body the finally clause releases, inside
\* acquire's sleep nothing is held; _reflection_loop catches it and breaks
TaskCancelled(t) ==
    /\ cancelReq[t]
    /\ tpc[t] \in {"created", "interval", "chat", "tool"}
    /\ tpc' = [tpc EXCEPT ![t] = "done"]
    /\ cancelReq' = [cancelReq EXCEPT ![t] = FALSE]
    /\ IF pc[t] = "body"
         THEN FileLockExit(t, "cancel")
       ELSE IF pc[t] = "sleep"
         THEN /\ pc' = [pc EXCEPT ![t] = "idle"]
              /\ caller' = [caller EXCEPT ![t] = "none"]
              /\ left' = [left EXCEPT ![t] = 0]
              /\ UNCHANGED <<lockfile, acquired, holding, last>>
       ELSE UNCHANGED lockVars
    /\ UNCHANGED <<running, reflTask, stopPc, stopWait, stopped, lifeVars>>

\* the task stop() has to cancel and await: _reflection_task, unless there
\* is none or it has finished (cancel() is then a no-op and the await
\* returns at once)
Pending == IF reflTask # "none" /\ tpc[reflTask] # "done" THEN reflTask ELSE "none"

\* stop() up to its await: clears _running, takes the two callbacks off
\* and cancels _reflection_task
StopCall ==
    /\ stopPc = "idle"
    /\ running' = FALSE
    /\ observers' = [s \in Streams |->
            IF s \in StopRemoves THEN RemoveObserver(observers[s])
                                 ELSE observers[s]]
    /\ IF Pending # "none"
         THEN /\ cancelReq' = [cancelReq EXCEPT ![Pending] = TRUE]
              /\ stopPc' = "await"
              /\ stopWait' = Pending
              /\ stopped' = FALSE
         ELSE /\ stopped' = TRUE
              /\ UNCHANGED <<cancelReq, stopPc, stopWait>>
    /\ UNCHANGED <<reflTask, tpc, enabled, startSkipped, lockVars>>

\* the awaited task has finished: stop() returns
StopReturn ==
    /\ stopPc = "await"
    /\ tpc[stopWait] = "done"
    /\ stopPc' = "idle"
    /\ stopWait' = "none"
    /\ stopped' = TRUE
    /\ UNCHANGED <<running, reflTask, tpc, cancelReq, lifeVars, lockVars>>

SchedNext ==
    \/ \E t \in Tasks : StartCall(t) /\ UNCHANGED envVars
    \/ StopCall /\ UNCHANGED envVars
    \/ StopReturn /\ UNCHANGED envVars
    \/ \E t \in Tasks : TaskBegin(t) /\ UNCHANGED envVars
    \/ \E t \in Tasks, empty \in BOOLEAN : TaskTick(t, empty) /\ UNCHANGED envVars
    \/ \E t \in Tasks, resp \in {"text", "error"} : TaskChatEnds(t, resp) /\ UNCHANGED envVars
    \/ \E t \in Tasks, to \in ToolTimeouts : TaskToolCall(t, to) /\ UNCHANGED envVars
    \/ \E t \in Tasks, d \in 1..MaxSleep : TaskLockWake(t, d) /\ UNCHANGED envVars
    \/ \E t \in Tasks, how \in Exits, more \in BOOLEAN :
          TaskToolExit(t, how, more) /\ UNCHANGED envVars
    \/ \E t \in Tasks : TaskCancelled(t) /\ UNCHANGED envVars
    \/ \E m \in Main, to \in ToolTimeouts :
          FileLockEnter(m, to) /\ UNCHANGED <<schedVars, envVars>>
    \/ \E m \in Main, d \in 1..MaxSleep :
          AcquireWake(m, d) /\ UNCHANGED <<schedVars, envVars>>
    \/ \E m \in Main, how \in Exits :
          FileLockExit(m, how) /\ UNCHANGED <<schedVars, envVars>>

SpecSched == Init /\ [][SchedNext]_vars

(***************************************************************************)
(* Marker I/O that fails.  Every read_text, write_text and unlink of the   *)
(* marker sits in a try block whose except clause passes.  write_text      *)
(* opens the file for writing, which creates or empties it, and then       *)
(* writes: a write that fails either leaves the marker as it was (the open *)
(* failed) or leaves an empty marker (the open succeeded, the write did    *)
(* not).  An empty marker carries no role tag.                             *)
(***************************************************************************)
\* a marker file whose content has no role tag
Corrupt == [by |-> "-", tag |-> "corrupt"]

\* the outcomes of the marker I/O of one poll attempt: of the write_text it
\* makes (at most one: after a failed first write the marker holds no
\* 'selfagent') and of the read_text of the priority branch
WriteOutcomes == {"ok", "fail", "trunc"}
ReadOutcomes == {"ok", "fail"}
IO == [write : WriteOutcomes, read : ReadOutcomes]
NoFault == [write |-> "ok", read |-> "ok"]

\* the marker a write_text that raised leaves behind
AfterFailedWrite(f, w) == IF w = "trunc" THEN Corrupt ELSE f

\* the try block around a write_text of marker g over marker f by a: on
\* success _acquired is set and acquire returns True; an exception is
\* passed over and neither happens
TryWriteFlagFirst(a, f, g, io) ==
    [ok |-> TRUE,
     file |-> IF io.write = "ok" THEN g ELSE AfterFailedWrite(f, io.write)]
TryWrite(a, f, g, io) ==
    IF io.write = "ok"
        THEN [ok |-> TRUE, file |-> g]
        ELSE [ok |-> FALSE, file |-> AfterFailedWrite(f, io.write)]

\* the priority branch on marker f: the marker is read, and overwritten
\* when the content read contains 'selfagent'; a read_text that raises is
\* passed over
PriorityBranchForceUnreadable(a, f, io) ==
    IF is_main_agent(a) /\ exists(f)
          /\ (io.read = "fail" \/ HasSelfagent(f) \/ f = Corrupt)
        THEN TryWrite(a, f, [by |-> a, tag |-> "main"], io)
        ELSE [ok |-> FALSE, file |-> f]
PriorityBranch(a, f, io) ==
    IF io.read = "ok" /\ CanOverride(a, f)
        THEN TryWrite(a, f, [by |-> a, tag |-> "main"], io)
        ELSE [ok |-> FALSE, file |-> f]

\* one poll attempt of acquire on marker f under I/O outcomes io: the
\* creation branch, and after a creation that failed (or with a marker
\* present) the priority branch on the marker as it then is
AcquireAttemptIO(a, f, io) ==
    IF ~exists(f)
        THEN LET w == TryWrite(a, f, Content(a), io) IN
             IF w.ok THEN w
             ELSE PriorityBranch(a, w.file, io)
        ELSE PriorityBranch(a, f, io)

\* the record of a's poll attempt with l ticks left, none when time is up
Inspect(a, l, io) ==
    IF InTime(l)
        THEN [who |-> a, marker |-> lockfile, write |-> io.write,
              read |-> io.read]
        ELSE inspected

\* FileLock.acquire() called with timeout t, its first attempt under io
AcquireCallIO(a, t, io) ==
    /\ pc[a] = "idle"
    /\ inspected' = Inspect(a, t, io)
    /\ AcquireLoopWith(a, "api", t, acquired[a], holding[a],
                       AcquireAttemptIO(a, lockfile, io))

\* asyncio.sleep(0.1) returns after d ticks, the next attempt under io
AcquireWakeIO(a, d, io) ==
    /\ pc[a] = "sleep"
    /\ inspected' = Inspect(a, Minus(left[a], d), io)
    /\ AcquireLoopWith(a, caller[a], Minus(left[a], d), acquired[a],
                       holding[a], AcquireAttemptIO(a, lockfile, io))

\* FileLock.release() whose unlink goes through (un) or raises: the
\* exception is passed over and the flag is reset all the same
ReleaseIO(a, un) ==
    /\ pc[a] = "idle"
    /\ IF ReleaseGuard(a, lockfile)
         THEN /\ lockfile' = IF un THEN NoFile ELSE lockfile
              /\ acquired' = [acquired EXCEPT ![a] = FALSE]
         ELSE UNCHANGED <<lockfile, acquired>>
    /\ holding' = [holding EXCEPT ![a] = FALSE]
    /\ last' = Done(a, "release", "None", "-")
    /\ UNCHANGED <<pc, caller, left>>

\* the direct use of FileLock objects on a file system that may fail
FaultActors == {"s1", "m1"}

\* the least timeout a caller passes: the parameter is a float, nothing
\* keeps it above 0
MinTimeout == 0 - 1

FaultNext ==
    \/ \E a \in FaultActors, t \in MinTimeout..MaxTimeout, io \in IO :
          AcquireCallIO(a, t, io) /\ UNCHANGED <<schedVars, bufVars, loopVars>>
    \/ \E a \in FaultActors, d \in 1..MaxSleep, io \in IO :
          AcquireWakeIO(a, d, io) /\ UNCHANGED <<schedVars, bufVars, loopVars>>
    \/ \E a \in FaultActors, un \in BOOLEAN :
          ReleaseIO(a, un) /\ UNCHANGED <<schedVars, envVars>>

SpecFault == Init /\ [][FaultNext]_vars

(***************************************************************************)
(* The observation buffers.  _on_message and _on_main_state_change run     *)
(* inline in the publisher; each takes _buffer_lock, appends and applies   *)
(* the size limit without an await in between, and asyncio.Lock.acquire    *)
(* does not suspend on a free lock, so a publish is one step.  An event is *)
(* kept as its number in its stream.                                       *)
(***************************************************************************)
\* len(buffer) > 1000 triggers the cut
BufferLimit == 1000
\* buffer[-500:] is what the cut keeps
BufferKeep == 500

\* the elements of a list
Elems(b) == {b[i] : i \in 1..Len(b)}

\* b[-n:], the last n elements of b (all of b when it has no more than n)
FirstN(b, n) == IF Len(b) <= n THEN b ELSE SubSeq(b, 1, n)
LastN(b, n) == IF Len(b) <= n THEN b ELSE SubSeq(b, Len(b) - n + 1, Len(b))

\* buffer.append(e)
AddFront(b, e) == <<e>> \o b
Add(b, e) == Append(b, e)

\* `if len(buffer) > 1000: buffer = buffer[-500:]`
LimitBufferAtLimit(b) ==
    IF Len(b) >= BufferLimit THEN LastN(b, BufferKeep) ELSE b
LimitBuffer(b) == IF Len(b) > BufferLimit THEN LastN(b, BufferKeep) ELSE b

\* the buffer b after event e was published into it
Publish(b, e) == LimitBuffer(Add(b, e))

\* the bookkeeping of a publish into stream s whose buffer was b
Published(s, b) ==
    LET e == published[s] + 1 IN
    /\ pubLeft > 0
    /\ pubLeft' = pubLeft - 1
    /\ published' = [published EXCEPT ![s] = e]
    /\ lost' = [lost EXCEPT ![s] = @ \cup ((Elems(b) \cup {e}) \ Elems(Publish(b, e)))]

\* _buffer_lock while a reflection task is at position pos: the two
\* `async with self._buffer_lock` blocks hold no await, the drain gives the
\* lock back before the cycle goes on
HeldDuringCycle(pos) == pos \in {"chat", "tool"}
BufferLockHeld(pos) == FALSE

\* some task holds _buffer_lock: an observer has to wait for it
BufferLocked == \E t \in Tasks : BufferLockHeld(tpc[t])

\* SelfAgent._on_message: the bus hands over the next message
on_message ==
    /\ ~BufferLocked
    /\ Published("message", message_buffer)
    /\ message_buffer' = Publish(message_buffer, published["message"] + 1)
    /\ UNCHANGED <<state_buffer, messages, states, drained>>

\* SelfAgent._on_main_state_change: the main loop reports its next state
\* change
on_state_change_into_messages ==
    /\ ~BufferLocked
    /\ Published("state", state_buffer)
    /\ message_buffer' = Publish(message_buffer, published["state"] + 1)
    /\ UNCHANGED <<state_buffer, messages, states, drained>>
on_main_state_change ==
    /\ ~BufferLocked
    /\ Published("state", state_buffer)
    /\ state_buffer' = Publish(state_buffer, published["state"] + 1)
    /\ UNCHANGED <<message_buffer, messages, states, drained>>

(***************************************************************************)
(* _perform_reflection and _run_agent_loop, as steps of reflection task t  *)
(* between its awaits: provider.chat and tools.execute.  A tool is kept to *)
(* its call and its outcome.                                               *)
(***************************************************************************)
\* most tool calls one response carries
MaxCalls == 2
\* largest config.max_iterations
MaxIter == 2

\* list.copy() of a buffer that is cleared right after
Alias(b) == <<>>
Copy(b) == b

\* `if not messages and not states: return`
SkipWithoutMessages(m, s) == m = <<>>
Skip(m, s) == m = <<>> /\ s = <<>>

\* `for iteration in range(self.config.max_iterations)` has a value i
InRangeInclusive(i) == i <= max_iterations
InRange(i) == i < max_iterations

\* an entry of the context: the system prompt, the user prompt or the
\* result of a tool call
Entry(role, id) == [role |-> role, tool_call_id |-> id]
NoId == <<0, 0>>

\* response.tool_calls of the k-th reasoning call of a run, n calls
ToolCalls(k, n) == [j \in 1..n |-> <<k, j>>]

\* the answers of provider.chat: a text, no content, tool calls, or an
\* exception
Responses ==
    [kind : {"text", "none", "raise"}, n : {0}]
        \cup [kind : {"tools"}, n : 1..MaxCalls]

\* response.has_tool_calls
has_tool_calls(resp) == resp.kind = "tools"

\* `response.content or ""`
ContentOrNone(resp) == IF resp.kind = "text" THEN "text" ELSE "None"
ContentOrEmpty(resp) == IF resp.kind = "text" THEN "text" ELSE ""

\* the tool calls of tc that run once the for loop over tc is at position k:
\* `await self.tools.execute(...)` of the k-th, one at a time
DispatchAll(tc, k) == IF k = 1 THEN Elems(tc) ELSE {}
Dispatch(tc, k) == {tc[k]}

\* the head of the for loop with `iteration` = i after c reasoning calls:
\* the next provider.chat is awaited, or the range is used up and the run
\* returns the sentinel
LoopIteration(t, i, c) ==
    /\ iteration' = i
    /\ IF InRange(i)
         THEN /\ chats' = c + 1
              /\ tpc' = [tpc EXCEPT ![t] = "chat"]
              /\ result' = "running"
         ELSE /\ chats' = c
              /\ tpc' = [tpc EXCEPT ![t] = LoopHead]
              /\ result' = "Max iterations reached"

\* the drain of _perform_reflection: under _buffer_lock both buffers are
\* copied and cleared
Drain ==
    /\ messages' = Copy(message_buffer)
    /\ states' = Copy(state_buffer)
    /\ message_buffer' = <<>>
    /\ state_buffer' = <<>>
    /\ drained' = [s \in Streams |->
            drained[s] \o (IF s = "message" THEN messages' ELSE states')]
    /\ UNCHANGED <<published, lost, pubLeft>>

\* the interval is over: the buffers are drained; with something drained
\* _run_agent_loop starts and runs to its first await
perform_reflection(t) ==
    /\ tpc[t] = "interval" /\ ~cancelReq[t]
    /\ Drain
    /\ IF Skip(messages', states')
         THEN /\ invoked' = FALSE
              /\ UNCHANGED <<tpc, max_iterations, iteration, loop_messages,
                             tool_calls, call, inflight, result, chats>>
         ELSE /\ invoked' = TRUE
              /\ loop_messages' = <<Entry("system", NoId), Entry("user", NoId)>>
              /\ tool_calls' = <<>>
              /\ call' = 0
              /\ inflight' = {}
              /\ LoopIteration(t, 0, 0)
              /\ UNCHANGED max_iterations
    /\ UNCHANGED <<running, reflTask, cancelReq, stopPc, stopWait, stopped,
                   lifeVars>>

\* `except Exception` of _reflection_loop: the error of a cycle is logged
\* and the task goes back to the head of its loop
AfterCycleErrorBreak == "done"
AfterCycleError == LoopHead

\* buffer b after a cycle that had drained snap failed: nothing handles the
\* failure inside _perform_reflection, what was drained is not put back
Requeued(b, snap) == snap \o b
AfterFailure(b, snap) == b

\* `except Exception as e: ... raise` of _run_agent_loop, in iteration i
\* after c reasoning calls: the exception leaves the run and the cycle
SwallowException(t, i, c) == LoopIteration(t, i + 1, c)
Reraise(t, i, c) ==
    /\ result' = "raised"
    /\ tpc' = [tpc EXCEPT ![t] = AfterCycleError]
    /\ iteration' = i
    /\ chats' = c

\* a call awaited by the run has raised
RunFails(t) ==
    /\ Reraise(t, iteration, chats)
    /\ message_buffer' = AfterFailure(message_buffer, messages)
    /\ state_buffer' = AfterFailure(state_buffer, states)
    /\ UNCHANGED <<messages, states, published, drained, lost, pubLeft>>

\* provider.chat has answered resp: an exception leaves the run, an answer
\* without tool calls is returned, tool calls are executed from the first
ChatResponds(t, resp) ==
    /\ tpc[t] = "chat" /\ ~cancelReq[t]
    /\ IF resp.kind = "raise"
         THEN /\ RunFails(t)
              /\ UNCHANGED <<tool_calls, call, inflight>>
       ELSE IF ~has_tool_calls(resp)
         THEN /\ result' = ContentOrEmpty(resp)
              /\ tpc' = [tpc EXCEPT ![t] = LoopHead]
              /\ UNCHANGED <<tool_calls, call, inflight, iteration, chats>>
              /\ UNCHANGED bufVars
         ELSE /\ tool_calls' = ToolCalls(chats, resp.n)
              /\ call' = 1
              /\ inflight' = Dispatch(tool_calls', 1)
              /\ tpc' = [tpc EXCEPT ![t] = "tool"]
              /\ UNCHANGED <<result, iteration, chats>>
              /\ UNCHANGED bufVars
    /\ UNCHANGED <<max_iterations, loop_messages, invoked>>
    /\ UNCHANGED <<running, reflTask, cancelReq, stopPc, stopWait, stopped,
                   lifeVars>>

\* tools.execute of tool call c has returned (ok) or raised: the result is
\* appended to the context and the next tool call of the response starts,
\* or after the last one the for loop over the iterations goes on; an
\* exception leaves the run
ToolReturns(t, c, ok) ==
    /\ tpc[t] = "tool" /\ ~cancelReq[t]
    /\ c \in inflight
    /\ IF ~ok
         THEN /\ RunFails(t)
              /\ inflight' = inflight \ {c}
              /\ UNCHANGED <<loop_messages, call>>
       ELSE IF call < Len(tool_calls)
         THEN /\ loop_messages' = Append(loop_messages, Entry("tool", c))
              /\ call' = call + 1
              /\ inflight' = (inflight \ {c}) \cup Dispatch(tool_calls, call + 1)
              /\ UNCHANGED <<iteration, result, chats, tpc>>
              /\ UNCHANGED bufVars
         ELSE /\ loop_messages' = Append(loop_messages, Entry("tool", c))
              /\ inflight' = inflight \ {c}
              /\ LoopIteration(t, iteration + 1, chats)
              /\ UNCHANGED call
              /\ UNCHANGED bufVars
    /\ UNCHANGED <<max_iterations, tool_calls, invoked>>
    /\ UNCHANGED <<running, reflTask, cancelReq, stopPc, stopWait, stopped,
                   lifeVars>>

(***************************************************************************)
(* A started SelfAgent whose reflection task runs its cycles while the     *)
(* main process publishes                                                  *)
(***************************************************************************)
\* events the main process publishes in a run of the model
MaxPublish == 3

\* after start() and the first step of the reflection task
Started(t) ==
    /\ running = TRUE
    /\ reflTask = t
    /\ tpc = [u \in Tasks |-> IF u = t THEN "interval" ELSE "none"]
    /\ cancelReq = [u \in Tasks |-> FALSE]
    /\ stopPc = "idle"
    /\ stopWait = "none"
    /\ stopped = FALSE
    /\ enabled = TRUE
    /\ observers = [s \in Streams |-> 1]
    /\ startSkipped = FALSE

AgentNext ==
    \/ on_message /\ UNCHANGED <<lockVars, schedVars, inspected, loopVars>>
    \/ on_main_state_change
          /\ UNCHANGED <<lockVars, schedVars, inspected, loopVars>>
    \/ perform_reflection(reflTask) /\ UNCHANGED <<lockVars, inspected>>
    \/ \E resp \in Responses :
          ChatResponds(reflTask, resp) /\ UNCHANGED <<lockVars, inspected>>
    \/ \E c \in inflight, ok \in BOOLEAN :
          ToolReturns(reflTask, c, ok) /\ UNCHANGED <<lockVars, inspected>>

\* empty buffers, every config.max_iterations up to MaxIter
AgentInit ==
    /\ LockInit /\ Started("s1") /\ FaultInit
    /\ BufInit(0, 0, MaxPublish)
    /\ \E mi \in 0..MaxIter : LoopInit(mi)

SpecAgent == AgentInit /\ [][AgentNext]_vars

\* the reasoning call and the tools answer: provider.chat returns or
\* raises, and so does tools.execute (a locked tool gives up at its timeout)
SpecAgentFair ==
    /\ SpecAgent
    /\ WF_vars(\E resp \in Responses :
          ChatResponds(reflTask, resp) /\ UNCHANGED <<lockVars, inspected>>)
    /\ WF_vars(\E c \in inflight, ok \in BOOLEAN :
          ToolReturns(reflTask, c, ok) /\ UNCHANGED <<lockVars, inspected>>)

\* how full a buffer is at the start: empty, one below the limit, at the
\* limit
PreFill == {0, BufferLimit - 1, BufferLimit}

\* buffers that were filled and not drained
FullInit ==
    /\ LockInit /\ Started("s1") /\ FaultInit
    /\ \E km \in PreFill, ks \in PreFill : BufInit(km, ks, MaxPublish)
    /\ LoopInit(1)

SpecBuf == FullInit /\ [][AgentNext]_vars

\* the scenario of 1200 messages published into the empty buffer one after
\* the other
ScenarioPublishes == 1200

ScenarioInit ==
    /\ LockInit /\ Started("s1") /\ FaultInit
    /\ BufInit(0, 0, ScenarioPublishes)
    /\ LoopInit(1)

ScenarioNext ==
    on_message /\ UNCHANGED <<lockVars, schedVars, inspected, loopVars>>

SpecScenario == ScenarioInit /\ [][ScenarioNext]_vars

(***************************************************************************)
(* start(), stop() and the two publishers.  An event reaches a buffer      *)
(* through the callbacks that are registered when it is published; the     *)
(* cycles of the tasks are kept to their drain and their end.              *)
(***************************************************************************)
\* buffer b after the callback ran on event e for each of n registrations
RECURSIVE Deliver(_, _, _)
Deliver(b, e, n) == IF n = 0 THEN b ELSE Deliver(Publish(b, e), e, n - 1)

\* the publisher of stream s publishes its next event: the registered
\* callbacks run inline, one after the other
BusPublish(s) ==
    LET e == published[s] + 1
        b == IF s = "message" THEN message_buffer ELSE state_buffer
        d == Deliver(b, e, observers[s])
    IN  /\ pubLeft > 0
        /\ ~BufferLocked
        /\ pubLeft' = pubLeft - 1
        /\ published' = [published EXCEPT ![s] = e]
        /\ message_buffer' = IF s = "message" THEN d ELSE message_buffer
        /\ state_buffer' = IF s = "state" THEN d ELSE state_buffer
        /\ lost' = [lost EXCEPT ![s] =
                IF observers[s] = 0 THEN @
                ELSE @ \cup ((Elems(b) \cup {e}) \ Elems(d))]
        /\ UNCHANGED <<messages, states, drained>>

\* the interval of task t is over: its _perform_reflection drains the
\* buffers and skips the cycle or goes on to the reasoning call
LifeTick(t) ==
    /\ TaskTick(t, Skip(Copy(message_buffer), Copy(state_buffer)))
    /\ Drain
    /\ UNCHANGED <<inspected, loopVars>>

LifeNext ==
    \/ \E t \in Tasks : StartCall(t) /\ UNCHANGED envVars
    \/ StartDisabled /\ UNCHANGED envVars
    \/ StopCall /\ UNCHANGED envVars
    \/ StopReturn /\ UNCHANGED envVars
    \/ \E t \in Tasks : TaskBegin(t) /\ UNCHANGED envVars
    \/ \E t \in Tasks : LifeTick(t)
    \/ \E t \in Tasks, resp \in {"text", "error"} :
          TaskChatEnds(t, resp) /\ UNCHANGED envVars
    \/ \E t \in Tasks : TaskCancelled(t) /\ UNCHANGED envVars
    \/ \E s \in Streams :
          BusPublish(s) /\ UNCHANGED <<lockVars, schedVars, inspected, loopVars>>

\* the events the two publishers publish between them
LifePublishes == 2

\* a constructed SelfAgent, enabled or not, and LifePublishes events to come
LifeInit ==
    /\ LockInit /\ FaultInit
    /\ \E e \in BOOLEAN : SchedInitWith(e)
    /\ BufInit(0, 0, LifePublishes)
    /\ LoopInit(0)

SpecLife == LifeInit /\ [][LifeNext]_vars

(***************************************************************************)
(* Steps of one actor, for stating properties of single calls              *)
(***************************************************************************)
\* a holds the lock in its own eyes: its acquire succeeded and it has not
\* called release since
Holds(a) == holding[a]

\* a step of a's acquire: the call with its first attempt, or a later attempt
AcquireStep(a) ==
    \/ \E t \in 0..MaxTimeout : AcquireCall(a, t)
    \/ \E d \in 1..MaxSleep : AcquireWake(a, d)

\* a step in which a's acquire returns True / returns False
Succeeds(a) ==
    /\ pc'[a] # "sleep" /\ last'.who = a /\ last'.res = "True"
    /\ AcquireStep(a)
Fails(a) ==
    /\ pc'[a] # "sleep" /\ last'.who = a /\ last'.res = "False"
    /\ AcquireStep(a)

\* marker f stops a's attempt: it exists and a may not override it
Blocks(f, a) == exists(f) /\ ~(is_main_agent(a) /\ f.tag = "selfagent")

(***************************************************************************)
(* C1: at no time do two SUBORDINATE callers both consider themselves      *)
(* holder of the resource.                                                 *)
(* Violated: s1 acquires, m1 overrides s1's marker and releases, s2        *)
(* acquires the free resource while s1 has not released.                   *)
(***************************************************************************)
C1_SubordinateMutualExclusion ==
    \A a \in Sub, b \in Sub : a # b => ~(Holds(a) /\ Holds(b))

(***************************************************************************)
(* C2: a PRIVILEGED acquire with timeout > 0 called while the marker       *)
(* records a SUBORDINATE holder returns True from its first poll attempt,  *)
(* without sleeping, and leaves the marker tagged 'main'.                  *)
(***************************************************************************)
C2_PrivilegedOverridesOnFirstPoll ==
    [][\A m \in Main, t \in 1..MaxTimeout :
        (lockfile.tag = "selfagent" /\ AcquireCall(m, t))
            => /\ last' = Done(m, "acquire", "True", "selfagent")
               /\ pc'[m] = "idle"
               /\ acquired'[m]
               /\ lockfile' = [by |-> m, tag |-> "main"]]_vars

C2_Witness ==
    /\ last = Done("m1", "acquire", "True", "selfagent")
    /\ lockfile = [by |-> "m1", tag |-> "main"]
    /\ Holds("s1")

(***************************************************************************)
(* C3: an acquire succeeds over an existing marker only when the caller is *)
(* PRIVILEGED and the marker is SUBORDINATE-held.  A SUBORDINATE caller    *)
(* facing any marker, and a PRIVILEGED caller facing a PRIVILEGED marker,  *)
(* leave the marker as it is and keep polling while time is left, and      *)
(* return False once the timeout has expired.                              *)
(***************************************************************************)
C3_OverrideOnlyPrivilegedOverSubordinate ==
    [][\A a \in Actors :
        /\ (exists(lockfile) /\ Succeeds(a))
              => (is_main_agent(a) /\ lockfile.tag = "selfagent")
        /\ \A t \in 0..MaxTimeout :
              (Blocks(lockfile, a) /\ AcquireCall(a, t))
                => /\ lockfile' = lockfile
                   /\ IF t > 0 THEN pc'[a] = "sleep" /\ left'[a] = t
                               ELSE Fails(a)
        /\ \A d \in 1..MaxSleep :
              (Blocks(lockfile, a) /\ AcquireWake(a, d))
                => /\ lockfile' = lockfile
                   /\ IF left[a] > d
                         THEN pc'[a] = "sleep" /\ left'[a] = left[a] - d
                         ELSE Fails(a)]_vars

C3_Witness ==
    /\ lockfile = [by |-> "m1", tag |-> "main"]
    /\ pc["m2"] = "sleep"
    /\ pc["s1"] = "sleep"
    /\ last = Done("s2", "acquire", "False", "-")

(***************************************************************************)
(* C4: a release called on a lock object that never acquired, or called    *)
(* again after a release of the same acquisition, leaves the marker as it  *)
(* was.                                                                    *)
(* Violated: release resets _acquired only when it unlinks, so a release   *)
(* that finds no marker leaves the flag set and the next release unlinks   *)
(* whatever marker is there.                                               *)
(***************************************************************************)
C4_ReleaseIdempotent ==
    [][\A a \in Actors :
        (~holding[a] /\ Release(a))
            => lockfile' = lockfile]_vars

(***************************************************************************)
(* C5: release never removes or alters a marker written by another actor.  *)
(* Violated: release unlinks whenever its own flag is set and a marker     *)
(* exists, whoever wrote it.                                               *)
(***************************************************************************)
C5_ReleaseOnlyOwnMarker ==
    [][\A a \in Actors :
        (exists(lockfile) /\ lockfile.by # a /\ Release(a))
            => lockfile' = lockfile]_vars

(***************************************************************************)
(* C6: the marker is present iff exactly one actor holds the lock (has     *)
(* acquired and not released), and the marker's tag is that actor's role.  *)
(* Violated: after a PRIVILEGED override both the overridden SUBORDINATE   *)
(* and the PRIVILEGED caller hold.                                         *)
(***************************************************************************)
C6_MarkerIffOneHolder ==
    LET holders == {a \in Actors : Holds(a)} IN
    /\ exists(lockfile) <=> Cardinality(holders) = 1
    /\ exists(lockfile) => \A a \in holders : lockfile.tag = RoleTag(a)


(***************************************************************************)
(* C7: while a locked tool operation executes on the resource, no other    *)
(* actor's locked operation on it executes.                                *)
(* Violated: a PRIVILEGED operation overrides the marker of a SUBORDINATE  *)
(* operation that is still executing, and starts.                          *)
(***************************************************************************)
C7_OneOperationAtATime ==
    \A a \in Actors, b \in Actors :
        a # b => ~(pc[a] = "body" /\ pc[b] = "body")

(***************************************************************************)
(* C10: when the timeout of a file_lock acquisition expires without        *)
(* success, acquire returns False and file_lock raises TimeoutError: the   *)
(* body is not entered and the marker is left as it was.  The body is      *)
(* entered only by a successful attempt that wrote the caller's marker.    *)
(***************************************************************************)
C10_TimeoutRaisesAndLeavesMarker ==
    [][\A a \in Actors :
        /\ \A d \in 1..MaxSleep :
              (caller[a] = "file_lock" /\ left[a] <= d /\ AcquireWake(a, d))
                => /\ last' = Done(a, "file_lock", "TimeoutError", "-")
                   /\ pc'[a] = "idle"
                   /\ ~acquired'[a]
                   /\ lockfile' = lockfile
        /\ (pc[a] # "body" /\ pc'[a] = "body")
              => /\ last' = Done(a, "acquire", "True", lockfile.tag)
                 /\ lockfile' = Content(a)]_vars

C10_Witness ==
    /\ last = Done("s1", "file_lock", "TimeoutError", "-")
    /\ pc["s1"] = "idle"
    /\ lockfile = [by |-> "m1", tag |-> "main"]
    /\ pc["m1"] = "body"

C8_NoSchedulerMarkerAfterStop ==
    stopped => ~(exists(lockfile) /\ lockfile.by \in Tasks)
(***************************************************************************)
(* Poll attempts on a failing file system, for stating C11 and C12         *)
(***************************************************************************)
\* a step in which a's acquire makes a poll attempt under io (time is left)
AttemptIO(a, io) ==
    \/ \E t \in 1..MaxTimeout : AcquireCallIO(a, t, io)
    \/ \E d \in 1..MaxSleep : left[a] > d /\ AcquireWakeIO(a, d, io)

\* the attempt finds a marker it cannot make sense of: read_text raises, or
\* the content carries no role tag
Unreadable(f, io) == exists(f) /\ (io.read = "fail" \/ f = Corrupt)

\* the attempt of a on marker f under io calls write_text
Writes(a, f, io) ==
    \/ ~exists(f)
    \/ is_main_agent(a) /\ io.read = "ok" /\ HasSelfagent(f)

C12_WriteErrorIsNotAcquisition ==
    [][\A a \in FaultActors, io \in IO :
        (io.write # "ok" /\ Writes(a, lockfile, io) /\ AttemptIO(a, io))
            => /\ acquired' = acquired
               /\ holding' = holding
               /\ last' = last
               /\ pc'[a] = "sleep"
               /\ caller'[a] # "none"
               /\ left'[a] > 0
               /\ lockfile' \in {lockfile, Corrupt}]_vars

C12_Witness ==
    /\ inspected = [who |-> "s1", marker |-> NoFile, write |-> "trunc",
                    read |-> "ok"]
    /\ lockfile = Corrupt
    /\ pc["s1"] = "sleep"
    /\ ~acquired["s1"]
    /\ ~Holds("s1")
(***************************************************************************)
(* Sequences of events, for stating C13 to C16                             *)
(***************************************************************************)
\* b holds the n events published last before the count reached p, oldest
\* first
IsLatest(b, n, p) == Len(b) = n /\ \A i \in 1..n : b[i] = p - n + i

\* b is a run of events published one right after the other, oldest first
IsRun(b) == \A i \in 1..(Len(b) - 1) : b[i + 1] = b[i] + 1

\* later positions of b hold events published later
IsOrdered(b) == \A i \in 1..(Len(b) - 1) : b[i] < b[i + 1]

\* the buffer of stream s
Buffer(s) == IF s = "message" THEN message_buffer ELSE state_buffer

\* the snapshot of stream s the latest drain returned
Snapshot(s) == IF s = "message" THEN messages ELSE states

(***************************************************************************)
(* C13: each stream's buffer never holds more than 1000 events, and right  *)
(* after a publish that finds the buffer at 1000 it holds exactly 500: the *)
(* 500 events published last, in the order they were published.            *)
(***************************************************************************)
C13_BufferBounded ==
    /\ [](Len(message_buffer) <= 1000 /\ Len(state_buffer) <= 1000)
    /\ [][/\ (Len(message_buffer) = 1000 /\ on_message)
                => IsLatest(message_buffer', 500, published'["message"])
          /\ (Len(state_buffer) = 1000 /\ on_main_state_change)
                => IsLatest(state_buffer', 500, published'["state"])]_vars

C13_Witness ==
    /\ published["message"] = 1001
    /\ IsLatest(message_buffer, 500, 1001)
    /\ Len(state_buffer) = 1000
    /\ drained["message"] = <<>>

(***************************************************************************)
(* C14 as stated: 1200 messages published one after the other into the     *)
(* empty buffer, with no drain in between, leave the buffer with 500       *)
(* events, the last 500 published, in order.                               *)
(* Violated: the cut happens once, at the 1001st message, and the 199      *)
(* messages after it are appended to the 500 it kept.                      *)
(***************************************************************************)
C14_ScenarioLeaves500 ==
    published["message"] = 1200 => IsLatest(message_buffer, 500, 1200)

(***************************************************************************)
(* C14 amended: 1200 messages published one after the other into the empty *)
(* buffer, with no drain in between, leave the buffer with 699 events, the *)
(* last 699 published, in order.                                           *)
(***************************************************************************)
C14_ScenarioLeaves699 ==
    published["message"] = 1200 => IsLatest(message_buffer, 699, 1200)

C14_Witness ==
    /\ published["message"] = 1200
    /\ Len(message_buffer) = 699
    /\ message_buffer[1] = 502
    /\ drained["message"] = <<>>

(***************************************************************************)
(* C15: a drain takes both buffers whole and leaves both empty, so every   *)
(* published event is in exactly one place: discarded by the size limit,   *)
(* returned by one drain, or still in the buffer for the next drain; no    *)
(* event is returned twice, and after a drain none is left behind.         *)
(***************************************************************************)
C15_DrainIsAtomic ==
    /\ [](\A s \in Streams :
            /\ Cardinality(Elems(drained[s])) = Len(drained[s])
            /\ Cardinality(Elems(Buffer(s))) = Len(Buffer(s))
            /\ Elems(drained[s]) \cap Elems(Buffer(s)) = {}
            /\ Elems(drained[s]) \cap lost[s] = {}
            /\ Elems(Buffer(s)) \cap lost[s] = {}
            /\ Elems(drained[s]) \cup Elems(Buffer(s)) \cup lost[s]
                  = 1..published[s])
    /\ [][perform_reflection(reflTask)
            => /\ messages' = message_buffer /\ states' = state_buffer
               /\ message_buffer' = <<>> /\ state_buffer' = <<>>
               /\ \A s \in Streams :
                     Elems(drained'[s]) \cup lost[s] = 1..published[s]]_vars

C15_Witness ==
    /\ tpc["s1"] = "chat"
    /\ Cardinality(lost["message"]) = 501
    /\ Len(drained["message"]) = 500
    /\ message_buffer = <<1002>>
    /\ Len(states) = 1000

(***************************************************************************)
(* C16: a buffer holds its events in the order they were published, a      *)
(* drain returns a run of events published one right after the other, all  *)
(* of them published before the drain, and the drains put one after the    *)
(* other, followed by the buffer, never show two events of a stream in     *)
(* another order than they were published in.                              *)
(***************************************************************************)
C16_PublishOrderKept ==
    \A s \in Streams :
        /\ IsRun(Buffer(s))
        /\ IsRun(Snapshot(s))
        /\ Elems(Snapshot(s)) \subseteq 1..published[s]
        /\ Buffer(s) # <<>> => Buffer(s)[Len(Buffer(s))] = published[s]
        /\ IsOrdered(drained[s] \o Buffer(s))

C16_Witness ==
    /\ drained["message"] = <<1, 2>>
    /\ messages = <<2>>
    /\ message_buffer = <<3>>
    /\ drained["state"] = FirstEvents(1000)
(***************************************************************************)
(* Runs of the agent loop, for stating C17 to C20                          *)
(***************************************************************************)
\* the reflection task awaits provider.chat / tools.execute / the interval
AwaitingResponse == tpc[reflTask] = "chat"
ExecutingTools == tpc[reflTask] = "tool"
BetweenCycles == tpc[reflTask] = "interval"

\* the results of the tool calls tc[1..n], as the context holds them
ResultsOf(tc, n) == [j \in 1..n |-> Entry("tool", tc[j])]

\* the context ends with the entries r
EndsWith(ctx, r) ==
    /\ Len(ctx) >= Len(r)
    /\ \A j \in 1..Len(r) : ctx[Len(ctx) - Len(r) + j] = r[j]

(***************************************************************************)
(* C17: a tick whose drain finds both buffers empty skips the cycle: no    *)
(* reasoning call is made, no tool is executed and the agent loop is not   *)
(* invoked; a tick whose drain finds an event in either buffer invokes the *)
(* agent loop.                                                             *)
(***************************************************************************)
C17_EmptyDrainSkipsCycle ==
    [][perform_reflection(reflTask)
        => /\ (message_buffer = <<>> /\ state_buffer = <<>>)
                => /\ ~invoked'
                   /\ BetweenCycles'
                   /\ chats' = chats /\ inflight' = {} /\ result' = result
           /\ (message_buffer # <<>> \/ state_buffer # <<>>)
                => /\ invoked'
                   /\ result' \in {"running", "Max iterations reached"}
                   /\ AwaitingResponse' <=> max_iterations > 0]_vars

C17_Witness ==
    /\ ~invoked
    /\ messages = <<>> /\ states = <<>>
    /\ drained["state"] = <<1>> /\ drained["message"] = <<>>
    /\ result = "text"
    /\ BetweenCycles

(***************************************************************************)
(* C18: a run of the agent loop makes at most max_iterations reasoning     *)
(* calls; when every reasoning call answers with tool calls and the tools  *)
(* return, the run ends after exactly max_iterations reasoning calls with  *)
(* the result 'Max iterations reached', for max_iterations = 0 as well;    *)
(* and every run ends.                                                     *)
(***************************************************************************)
C18_LoopBound ==
    /\ [](chats <= max_iterations)
    /\ [](result = "Max iterations reached" => chats = max_iterations)
    /\ [][/\ (\E c \in inflight : ToolReturns(reflTask, c, TRUE))
                => \/ result' = "running" /\ chats' <= max_iterations
                   \/ /\ result' = "Max iterations reached"
                      /\ chats' = max_iterations
                      /\ BetweenCycles'
          /\ (max_iterations = 0 /\ perform_reflection(reflTask) /\ invoked')
                => /\ result' = "Max iterations reached"
                   /\ chats' = 0
                   /\ BetweenCycles']_vars
    /\ (~BetweenCycles) ~> BetweenCycles

C18_Witness ==
    /\ max_iterations = 2
    /\ result = "Max iterations reached"
    /\ chats = 2
    /\ Len(loop_messages) = 6
    /\ BetweenCycles

(***************************************************************************)
(* C19: within a run the tool calls of a response are executed one at a    *)
(* time in the order received: while the k-th executes the results of the  *)
(* k-1 before it are the last entries of the context, in order; when the   *)
(* next reasoning call is made the results of all tool calls of the        *)
(* response before are; and never are two tool calls in execution.         *)
(***************************************************************************)
C19_ToolCallsSequential ==
    /\ Cardinality(inflight) <= 1
    /\ ExecutingTools
          => /\ call \in 1..Len(tool_calls)
             /\ inflight = {tool_calls[call]}
             /\ EndsWith(loop_messages, ResultsOf(tool_calls, call - 1))
             /\ Len(loop_messages) >= 2 + (call - 1)
    /\ (AwaitingResponse /\ chats > 1)
          => /\ inflight = {}
             /\ tool_calls # <<>>
             /\ EndsWith(loop_messages, ResultsOf(tool_calls, Len(tool_calls)))
    /\ \A i \in 3..Len(loop_messages) :
          /\ loop_messages[i].role = "tool"
          /\ i > 3 =>
               LET a == loop_messages[i - 1].tool_call_id
                   b == loop_messages[i].tool_call_id
               IN  a[1] < b[1] \/ (a[1] = b[1] /\ a[2] < b[2])

C19_Witness ==
    /\ ExecutingTools
    /\ chats = 2 /\ call = 2
    /\ inflight = {<<2, 2>>}
    /\ loop_messages = <<Entry("system", NoId), Entry("user", NoId),
                         Entry("tool", <<1, 1>>), Entry("tool", <<1, 2>>),
                         Entry("tool", <<2, 1>>)>>

(***************************************************************************)
(* C20: when the reasoning call answers without tool calls, the run is     *)
(* over at once: it returns the text of the answer, the empty text when    *)
(* the answer has none, no tool is executed and no further reasoning call  *)
(* is made.                                                                *)
(***************************************************************************)
C20_NoToolCallsEndsRun ==
    [][\A resp \in Responses :
        (resp.kind \in {"text", "none"} /\ ChatResponds(reflTask, resp))
            => /\ result' = (IF resp.kind = "text" THEN "text" ELSE "")
               /\ BetweenCycles'
               /\ inflight' = {}
               /\ chats' = chats
               /\ loop_messages' = loop_messages]_vars

C20_Witness ==
    /\ result = ""
    /\ chats = 2
    /\ max_iterations = 2
    /\ Len(loop_messages) = 4
    /\ inflight = {}
    /\ BetweenCycles
\* the reasoning call or a tool execution of the run raises in this step
RunRaises ==
    \/ \E resp \in Responses :
          resp.kind = "raise" /\ ChatResponds(reflTask, resp)
    \/ \E c \in inflight : ToolReturns(reflTask, c, FALSE)

(***************************************************************************)
(* C21: an exception of the reasoning call or of a tool execution ends the *)
(* run with that exception: the failing call is not made again, the tool   *)
(* calls of the response that were still to come are not executed, no      *)
(* further reasoning call is made in the run and no result is appended.    *)
(***************************************************************************)
C21_ExceptionAbortsRun ==
    /\ [](result = "raised"
            => inflight = {} /\ ~AwaitingResponse /\ ~ExecutingTools)
    /\ [][RunRaises
            => /\ result' = "raised"
               /\ BetweenCycles'
               /\ chats' = chats
               /\ iteration' = iteration
               /\ call' = call
               /\ inflight' = {}
               /\ loop_messages' = loop_messages]_vars

C21_Witness ==
    /\ result = "raised"
    /\ chats = 1 /\ max_iterations = 2
    /\ call = 1 /\ Len(tool_calls) = 2
    /\ loop_messages = <<Entry("system", NoId), Entry("user", NoId)>>
    /\ inflight = {}
    /\ BetweenCycles
\* a cycle of the reflection task has failed and no later cycle has started
CycleFailed == result = "raised"

(***************************************************************************)
(* C24: a reasoning error or a tool error of a reflection cycle does not   *)
(* stop the scheduler: after the failure _running is still set and the     *)
(* task is back in its interval, and the tick that follows drains both     *)
(* buffers and runs the agent loop when an observation is there.           *)
(***************************************************************************)
C24_CycleFailureNotFatal ==
    /\ [](CycleFailed
            => /\ running /\ BetweenCycles
               /\ ENABLED perform_reflection(reflTask))
    /\ [][RunRaises
            => running' /\ BetweenCycles' /\ reflTask' = reflTask]_vars
    /\ [][(CycleFailed /\ perform_reflection(reflTask))
            => /\ messages' = message_buffer /\ states' = state_buffer
               /\ message_buffer' = <<>> /\ state_buffer' = <<>>
               /\ (message_buffer # <<>> \/ state_buffer # <<>>)
                     => /\ invoked'
                        /\ ~CycleFailed'
                        /\ AwaitingResponse' <=> max_iterations > 0]_vars

C24_Witness ==
    /\ CycleFailed
    /\ running /\ BetweenCycles
    /\ chats = 2
    /\ state_buffer # <<>>
    /\ ENABLED perform_reflection(reflTask)

(***************************************************************************)
(* C25: the observations a failed cycle had drained are gone: the failure  *)
(* leaves both buffers as they were, with the events published since the   *)
(* drain, the drained events are not in the buffers afterwards, and no     *)
(* event is returned by two drains.                                        *)
(***************************************************************************)
C25_FailedCycleLosesBatch ==
    /\ [](\A s \in Streams :
            /\ IsOrdered(drained[s] \o Buffer(s))
            /\ CycleFailed => Elems(Snapshot(s)) \cap Elems(Buffer(s)) = {})
    /\ [][RunRaises
            => /\ message_buffer' = message_buffer
               /\ state_buffer' = state_buffer
               /\ drained' = drained
               /\ published' = published]_vars
    /\ [][(CycleFailed /\ perform_reflection(reflTask))
            => /\ Elems(messages') \cap Elems(messages) = {}
               /\ Elems(states') \cap Elems(states) = {}]_vars

C25_Witness ==
    /\ CycleFailed
    /\ messages = <<1>> /\ states = <<>>
    /\ message_buffer = <<2, 3>>
    /\ drained["message"] = <<1>>
C28_StreamsIndependent ==
    /\ [][on_message
            => /\ state_buffer' = state_buffer
               /\ published'["state"] = published["state"]
               /\ message_buffer' # message_buffer]_vars
    /\ [][on_main_state_change
            => /\ message_buffer' = message_buffer
               /\ published'["message"] = published["message"]
               /\ state_buffer' # state_buffer]_vars

C28_Witness ==
    /\ Len(message_buffer) = BufferKeep
    /\ lost["message"] # {}
    /\ Len(state_buffer) = BufferLimit
    /\ published["state"] = BufferLimit
\* the role tag the format gives a caller: 'main' for the PRIVILEGED role,
\* 'selfagent' for the SUBORDINATE role
TagOfRole(a) == IF a \in Main THEN "main" ELSE "selfagent"

Alive == {t \in Tasks : tpc[t] \notin {"none", "done"}}

\* task t is inside a reflection cycle, after its drain
InCycle(t) == tpc[t] \in {"chat", "tool"}

(***************************************************************************)
(* C26: whatever start() and stop() calls are made, at most one reflection *)
(* task is alive, and no task begins the drain of a cycle while another    *)
(* task is inside a cycle.                                                 *)
(* Violated: start() does not look at _running or _reflection_task, a      *)
(* second start() creates a second task next to the first, and both tick.  *)
(***************************************************************************)
C26_OneTaskNoOverlap ==
    /\ [](Cardinality(Alive) <= 1)
    /\ [][\A t \in Tasks, empty \in BOOLEAN :
            TaskTick(t, empty)
                => \A u \in Tasks \ {t} : ~InCycle(u)]_vars
\* no callback of the scheduler is registered with a publisher
Deregistered == \A s \in Streams : observers[s] = 0

(***************************************************************************)
(* C22: once stop() has returned and until start() is called again, the    *)
(* scheduler is STOPPED: _running is cleared, no callback is registered,   *)
(* no reflection task is alive, so no cycle is in flight or begins.        *)
(* Violated: after two start() calls stop() takes one registration of each *)
(* callback off and cancels and awaits only the task created last; the     *)
(* task created first is alive when stop() returns.                        *)
(***************************************************************************)
C22_StoppedAfterStop ==
    stopped => /\ ~running
               /\ Deregistered
               /\ Alive = {}
               /\ \A t \in Tasks : ~InCycle(t) /\ ~ENABLED LifeTick(t)
(***************************************************************************)
(* C23: start() of an enabled scheduler sets _running, registers its       *)
(* callback once more on the message stream and on the state stream and    *)
(* creates the reflection task; while _running is set a callback is        *)
(* registered on either stream, and an event published then is the newest  *)
(* entry of the buffer of its stream.                                      *)
(***************************************************************************)
C23_StartRegistersAndLaunches ==
    /\ [](running => enabled /\ \A s \in Streams : observers[s] >= 1)
    /\ [][\A t \in Tasks :
            StartCall(t)
                => /\ enabled
                   /\ running'
                   /\ \A s \in Streams : observers'[s] = observers[s] + 1
                   /\ tpc'[t] = "created" /\ reflTask' = t
                   /\ t \in Alive']_vars
    /\ [][(running /\ BusPublish("message"))
            => /\ message_buffer' # <<>>
               /\ message_buffer'[Len(message_buffer')]
                     = published'["message"]
               /\ observers["message"] = 1
                     => message_buffer'
                           = Append(message_buffer, published'["message"])
               /\ state_buffer' = state_buffer]_vars
    /\ [][(running /\ BusPublish("state"))
            => /\ state_buffer' # <<>>
               /\ state_buffer'[Len(state_buffer')] = published'["state"]
               /\ observers["state"] = 1
                     => state_buffer'
                           = Append(state_buffer, published'["state"])
               /\ message_buffer' = message_buffer]_vars

C23_Witness ==
    /\ running /\ ~stopped
    /\ observers = [s \in Streams |-> 1]
    /\ Alive = {reflTask}
    /\ tpc[reflTask] = "interval"
    /\ message_buffer = <<1>> /\ state_buffer = <<1>>
    /\ published = [s \in Streams |-> 1]

(***************************************************************************)
(* C30: with config.enabled false, start() changes nothing: _running stays *)
(* cleared, no callback is registered on either stream, no reflection task *)
(* is created, and so no event reaches a buffer and no drain or cycle      *)
(* takes place.                                                            *)
(***************************************************************************)
C30_DisabledStartIsNoOp ==
    /\ [](~enabled
            => /\ ~running
               /\ Deregistered
               /\ reflTask = "none"
               /\ \A t \in Tasks : tpc[t] = "none" /\ ~ENABLED LifeTick(t)
               /\ message_buffer = <<>> /\ state_buffer = <<>>
               /\ \A s \in Streams : drained[s] = <<>>)
    /\ [][(~startSkipped /\ StartDisabled)
            => /\ ~enabled
               /\ UNCHANGED <<running, observers, reflTask, tpc, cancelReq,
                              stopped, bufVars, loopVars>>]_vars

C30_Witness ==
    /\ ~enabled
    /\ startSkipped
    /\ pubLeft = 0
    /\ ~running /\ Deregistered /\ Alive = {}
\* a step in which a calls acquire with a timeout that is not above 0
ZeroTimeoutCall(a) ==
    \E t \in MinTimeout..0, io \in IO : AcquireCallIO(a, t, io)

(***************************************************************************)
(* C31: an acquire called with a timeout of 0 or less returns False at     *)
(* once and makes no poll attempt: the marker is neither read nor written  *)
(* and stays as it is, free or held, whoever calls and whatever the file   *)
(* system would have answered, and the caller's flag is not set.           *)
(***************************************************************************)
C31_NoAttemptWithoutTimeout ==
    [][\A a \in FaultActors :
        ZeroTimeoutCall(a)
            => /\ last' = Done(a, "acquire", "False", "-")
               /\ pc'[a] = "idle"
               /\ lockfile' = lockfile
               /\ inspected' = inspected
               /\ acquired' = acquired
               /\ holding' = holding]_vars

C31_Witness ==
    /\ last = Done("m1", "acquire", "False", "-")
    /\ ~exists(lockfile)
    /\ inspected.who = "-"
    /\ \A a \in Actors : pc[a] = "idle" /\ ~acquired[a]

=============================================================================
